---------------------------- MODULE Spec2Model ----------------------------
(***************************************************************************)
(* Deterministic medical triage engine of agent-incident-triage            *)
(* (services/api/src/api/domains/medical/rules.py): red-flag detection,    *)
(* risk-signal evaluation, ESI-like acuity scoring and the assessment      *)
(* composer.                                                               *)
(*                                                                         *)
(* Numbers: a conviction or threshold is an integer number of hundredths   *)
(* (0.2 is 20, 1.0 is 100); temperature_f is an integer number of tenths   *)
(* of a degree Fahrenheit (104.0 is 1040).  Strings are real strings:      *)
(* lower-casing, joining and substring search are computed on them.        *)
(*                                                                         *)
(* The second part models the service around the engine: the chat handler  *)
(* send_message (routes/triage.py), the voice pipeline run_voice_pipeline  *)
(* (core/pipeline.py), the status endpoints and the rows they write        *)
(* through db/repository.py, for one incident.                             *)
(*                                                                         *)
(* The third part models IncidentRepository.append_interaction called by   *)
(* several callers at once on that incident.                               *)
(***************************************************************************)
EXTENDS Integers, Sequences, FiniteSets, TLC

VARIABLES
    extraction,        \* the MedicalExtraction the engine is called with
    assessment,        \* result of assess(extraction), or None
    prev_assessment,   \* result of assess on the extraction of the previous call
    red_flags,         \* flag list of a direct compute_acuity call
    acuity,            \* result of compute_acuity(extraction, red_flags), or None
    prev_acuity,       \* result of the previous direct compute_acuity call
    op,                \* the last operation applied
    arg,               \* what the last operation added (keyword, signal, flag)
    incident,          \* the triage_incidents row of the incident
    messages,          \* the incident's triage_messages rows, oldest first
    assessments,       \* the incident's triage_assessments rows, oldest first
    audit_events,      \* the incident's triage_audit_events rows, oldest first
    turn,              \* local state of the message request in flight, if any
    response,          \* outcome of the request that returned last
    requests,          \* number of requests received so far
    appends            \* the calls of append_interaction made on the incident

engine_vars == <<extraction, assessment, prev_assessment, red_flags, acuity,
                 prev_acuity, op, arg>>

service_vars == <<incident, messages, assessments, audit_events, turn, response,
                  requests, appends>>

vars == <<extraction, assessment, prev_assessment, red_flags, acuity,
          prev_acuity, op, arg, incident, messages, assessments, audit_events,
          turn, response, requests, appends>>

\* Python's None in an optional numeric field; no field's range holds -1
None == -1

---------------------------------------------------------------------------
(* String helpers: what str.lower, str.join and the `in` operator do.      *)

\* the ASCII upper-case letters and their lower-case images
UpperCase == "ABCDEFGHIJKLMNOPQRSTUVWXYZ"
LowerCase == "abcdefghijklmnopqrstuvwxyz"

\* upper-case letter -> lower-case letter
LowerOf ==
    [c \in {SubSeq(UpperCase, i, i) : i \in 1..Len(UpperCase)} |->
        LET i == CHOOSE j \in 1..Len(UpperCase) : SubSeq(UpperCase, j, j) = c
        IN  SubSeq(LowerCase, i, i)]

\* one character lower-cased
LowerChar(c) == IF c \in DOMAIN LowerOf THEN LowerOf[c] ELSE c

\* str.lower()
RECURSIVE Lower(_)
Lower(s) ==
    IF Len(s) = 0 THEN ""
    ELSE LowerChar(SubSeq(s, 1, 1)) \o Lower(SubSeq(s, 2, Len(s)))

\* " ".join(parts)
RECURSIVE Join(_, _)
Join(sep, parts) ==
    IF Len(parts) = 0 THEN ""
    ELSE IF Len(parts) = 1 THEN parts[1]
    ELSE parts[1] \o sep \o Join(sep, Tail(parts))

\* `sub in s` on strings: substring search
Contains(sub, s) ==
    \E i \in 1..(Len(s) - Len(sub) + 1) : SubSeq(s, i, i + Len(sub) - 1) = sub

\* str(bool)
PyStr(b) == IF b THEN "True" ELSE "False"

\* f"{t}" of a float with one decimal, t in tenths
FloatStr(t) == ToString(t \div 10) \o "." \o ToString(t % 10)

---------------------------------------------------------------------------
(* Tables of rules.py.                                                     *)

\* _RED_FLAG_KEYWORDS, in the dict's insertion order: keyword, reason
RED_FLAG_KEYWORDS == <<
    <<"chest pain", "Possible cardiac event">>,
    <<"heart attack", "Possible cardiac event">>,
    <<"cardiac arrest", "Possible cardiac event">>,
    <<"difficulty breathing", "Respiratory distress">>,
    <<"shortness of breath", "Respiratory distress">>,
    <<"can't breathe", "Respiratory distress">>,
    <<"cannot breathe", "Respiratory distress">>,
    <<"choking", "Respiratory distress">>,
    <<"severe bleeding", "Hemorrhage risk">>,
    <<"uncontrolled bleeding", "Hemorrhage risk">>,
    <<"bleeding heavily", "Hemorrhage risk">>,
    <<"seizure", "Neurological emergency">>,
    <<"convulsion", "Neurological emergency">>,
    <<"stroke", "Possible CVA">>,
    <<"slurred speech", "Possible CVA">>,
    <<"facial drooping", "Possible CVA">>,
    <<"loss of consciousness", "Altered consciousness">>,
    <<"passed out", "Altered consciousness">>,
    <<"fainted", "Altered consciousness">>,
    <<"dying", "Patient reports imminent death">>,
    <<"going to die", "Patient reports imminent death">>,
    <<"suicidal", "Psychiatric emergency">>,
    <<"self-harm", "Psychiatric emergency">>,
    <<"kill myself", "Psychiatric emergency">>,
    <<"anaphylaxis", "Severe allergic reaction">>,
    <<"severe allergic reaction", "Severe allergic reaction">>,
    <<"overdose", "Possible overdose">> >>

\* CriticalRedFlagType members used by the evaluator, in its order
RiskFlagTypes == <<"SUICIDAL_IDEATION", "SELF_HARM", "HOMICIDAL_IDEATION",
                   "CANNOT_BREATHE", "CHEST_PAIN", "NEURO_DEFICIT",
                   "BLEEDING_UNCONTROLLED">>

\* RISK_SIGNAL_THRESHOLDS, in hundredths
RISK_SIGNAL_THRESHOLDS ==
    [t \in {RiskFlagTypes[i] : i \in 1..Len(RiskFlagTypes)} |->
        CASE t = "SUICIDAL_IDEATION"     -> 20
          [] t = "SELF_HARM"             -> 20
          [] t = "HOMICIDAL_IDEATION"    -> 40
          [] t = "CANNOT_BREATHE"        -> 50
          [] t = "CHEST_PAIN"            -> 50
          [] t = "NEURO_DEFICIT"         -> 50
          [] t = "BLEEDING_UNCONTROLLED" -> 50]

\* _RISK_FLAG_EXPLANATIONS
RISK_FLAG_EXPLANATIONS ==
    [t \in {RiskFlagTypes[i] : i \in 1..Len(RiskFlagTypes)} |->
        CASE t = "SUICIDAL_IDEATION" ->
               "Patient may be expressing suicidal thoughts; policy requires immediate escalation."
          [] t = "SELF_HARM" ->
               "Patient may be expressing intent to self-harm; policy requires immediate escalation."
          [] t = "HOMICIDAL_IDEATION" ->
               "Patient may be expressing intent to harm others; policy requires immediate escalation."
          [] t = "CANNOT_BREATHE" ->
               "Patient reports difficulty breathing; this is a potential emergency."
          [] t = "CHEST_PAIN" ->
               "Patient reports chest pain; cardiac emergency must be ruled out."
          [] t = "NEURO_DEFICIT" ->
               "Patient shows signs of neurological deficit; possible stroke or emergency."
          [] t = "BLEEDING_UNCONTROLLED" ->
               "Patient reports uncontrolled bleeding; hemorrhage risk."]

\* the life-threat set without the overdose entry
life_threat_flags_NoOverdose ==
    {"chest_pain_with_sob", "severe bleeding", "anaphylaxis", "heart attack",
     "cardiac arrest", "dying", "going to die"}

\* life_threat_flags of compute_acuity
life_threat_flags ==
    {"chest_pain_with_sob", "severe bleeding", "anaphylaxis", "heart attack",
     "cardiac arrest", "dying", "going to die", "overdose"}

---------------------------------------------------------------------------
(* Value objects.                                                          *)

\* RedFlag(name=..., reason=...): severity defaults to "high" (BaseRedFlag)
RedFlag(name, reason) == [name |-> name, reason |-> reason, severity |-> "high"]

\* RedFlag(name=..., reason=..., severity=...)
RedFlagSev(name, reason, severity) ==
    [name |-> name, reason |-> reason, severity |-> severity]

\* TriggeredRiskFlag(...)
TriggeredRiskFlag(flag_type, signal_value, conviction, threshold) ==
    [flag_type |-> flag_type, signal_value |-> signal_value,
     conviction |-> conviction, threshold |-> threshold,
     human_explanation |-> RISK_FLAG_EXPLANATIONS[flag_type]]

\* RiskSignals(): the field defaults
DefaultRiskSignals ==
    [suicidal_ideation |-> FALSE,         suicidal_ideation_conviction |-> 0,
     self_harm_intent |-> FALSE,          self_harm_intent_conviction |-> 0,
     homicidal_ideation |-> FALSE,        homicidal_ideation_conviction |-> 0,
     can_breathe |-> "unknown",           can_breathe_conviction |-> 0,
     chest_pain |-> "unknown",            chest_pain_conviction |-> 0,
     neuro_deficit |-> "unknown",         neuro_deficit_conviction |-> 0,
     bleeding_uncontrolled |-> "unknown", bleeding_uncontrolled_conviction |-> 0]

\* VitalSigns(): every vital absent
DefaultVitalSigns ==
    [heart_rate |-> None, blood_pressure_systolic |-> None,
     temperature_f |-> None, oxygen_saturation |-> None]

\* MedicalExtraction(): the field defaults
DefaultExtraction ==
    [chief_complaint |-> "", symptoms |-> <<>>, pain_scale |-> None,
     vitals |-> DefaultVitalSigns, medical_history |-> <<>>, allergies |-> <<>>,
     medications |-> <<>>, mental_status |-> "alert",
     risk_signals |-> DefaultRiskSignals]

---------------------------------------------------------------------------
(* evaluate_risk_signals: one block per signal, in the source's order.     *)

\* Suicidal ideation: escalate if true OR conviction >= threshold
EvaluateSuicidal(risk_signals) ==
    LET threshold == RISK_SIGNAL_THRESHOLDS["SUICIDAL_IDEATION"] IN
    IF risk_signals.suicidal_ideation \/ risk_signals.suicidal_ideation_conviction >= threshold
    THEN <<TriggeredRiskFlag("SUICIDAL_IDEATION", PyStr(risk_signals.suicidal_ideation),
                             risk_signals.suicidal_ideation_conviction, threshold)>>
    ELSE <<>>

\* Self-harm intent: escalate if true OR conviction >= threshold
EvaluateSelfHarm(risk_signals) ==
    LET threshold == RISK_SIGNAL_THRESHOLDS["SELF_HARM"] IN
    IF risk_signals.self_harm_intent \/ risk_signals.self_harm_intent_conviction >= threshold
    THEN <<TriggeredRiskFlag("SELF_HARM", PyStr(risk_signals.self_harm_intent),
                             risk_signals.self_harm_intent_conviction, threshold)>>
    ELSE <<>>

\* the homicidal-ideation block with a strict comparison
EvaluateHomicidal_Strict(risk_signals) ==
    LET threshold == RISK_SIGNAL_THRESHOLDS["HOMICIDAL_IDEATION"] IN
    IF risk_signals.homicidal_ideation \/ risk_signals.homicidal_ideation_conviction > threshold
    THEN <<TriggeredRiskFlag("HOMICIDAL_IDEATION", PyStr(risk_signals.homicidal_ideation),
                             risk_signals.homicidal_ideation_conviction, threshold)>>
    ELSE <<>>

\* Homicidal ideation: escalate if true OR conviction >= threshold
EvaluateHomicidal(risk_signals) ==
    LET threshold == RISK_SIGNAL_THRESHOLDS["HOMICIDAL_IDEATION"] IN
    IF risk_signals.homicidal_ideation \/ risk_signals.homicidal_ideation_conviction >= threshold
    THEN <<TriggeredRiskFlag("HOMICIDAL_IDEATION", PyStr(risk_signals.homicidal_ideation),
                             risk_signals.homicidal_ideation_conviction, threshold)>>
    ELSE <<>>

\* Can't breathe: escalate if "no" OR conviction >= threshold
EvaluateCannotBreathe(risk_signals) ==
    LET threshold == RISK_SIGNAL_THRESHOLDS["CANNOT_BREATHE"] IN
    IF risk_signals.can_breathe = "no" \/ risk_signals.can_breathe_conviction >= threshold
    THEN <<TriggeredRiskFlag("CANNOT_BREATHE", risk_signals.can_breathe,
                             risk_signals.can_breathe_conviction, threshold)>>
    ELSE <<>>

\* the chest-pain block asking for the danger value and the conviction
EvaluateChestPain_Both(risk_signals) ==
    LET threshold == RISK_SIGNAL_THRESHOLDS["CHEST_PAIN"] IN
    IF risk_signals.chest_pain = "yes" /\ risk_signals.chest_pain_conviction >= threshold
    THEN <<TriggeredRiskFlag("CHEST_PAIN", risk_signals.chest_pain,
                             risk_signals.chest_pain_conviction, threshold)>>
    ELSE <<>>

\* Chest pain: escalate if "yes" OR conviction >= threshold
EvaluateChestPain(risk_signals) ==
    LET threshold == RISK_SIGNAL_THRESHOLDS["CHEST_PAIN"] IN
    IF risk_signals.chest_pain = "yes" \/ risk_signals.chest_pain_conviction >= threshold
    THEN <<TriggeredRiskFlag("CHEST_PAIN", risk_signals.chest_pain,
                             risk_signals.chest_pain_conviction, threshold)>>
    ELSE <<>>

\* Neuro deficit: escalate if "yes" OR conviction >= threshold
EvaluateNeuroDeficit(risk_signals) ==
    LET threshold == RISK_SIGNAL_THRESHOLDS["NEURO_DEFICIT"] IN
    IF risk_signals.neuro_deficit = "yes" \/ risk_signals.neuro_deficit_conviction >= threshold
    THEN <<TriggeredRiskFlag("NEURO_DEFICIT", risk_signals.neuro_deficit,
                             risk_signals.neuro_deficit_conviction, threshold)>>
    ELSE <<>>

\* Uncontrolled bleeding: escalate if "yes" OR conviction >= threshold
EvaluateBleeding(risk_signals) ==
    LET threshold == RISK_SIGNAL_THRESHOLDS["BLEEDING_UNCONTROLLED"] IN
    IF risk_signals.bleeding_uncontrolled = "yes" \/ risk_signals.bleeding_uncontrolled_conviction >= threshold
    THEN <<TriggeredRiskFlag("BLEEDING_UNCONTROLLED", risk_signals.bleeding_uncontrolled,
                             risk_signals.bleeding_uncontrolled_conviction, threshold)>>
    ELSE <<>>

evaluate_risk_signals(risk_signals) ==
    EvaluateSuicidal(risk_signals) \o EvaluateSelfHarm(risk_signals)
    \o EvaluateHomicidal(risk_signals) \o EvaluateCannotBreathe(risk_signals)
    \o EvaluateChestPain(risk_signals) \o EvaluateNeuroDeficit(risk_signals)
    \o EvaluateBleeding(risk_signals)

---------------------------------------------------------------------------
(* detect_red_flags.                                                       *)

\* the lower-cased search string: complaint and symptoms joined by spaces
searchable(e) ==
    Join(" ", <<Lower(e.chief_complaint)>>
              \o [i \in 1..Len(e.symptoms) |-> Lower(e.symptoms[i])])

\* the keyword scan over the table, in table order
KeywordFlags(text) ==
    LET Hit(entry) == Contains(entry[1], text)
        hits == SelectSeq(RED_FLAG_KEYWORDS, Hit)
    IN  [i \in 1..Len(hits) |-> RedFlag(hits[i][1], hits[i][2])]

\* has_sob of the combination rule
has_sob(text) ==
    Contains("shortness of breath", text) \/ Contains("difficulty breathing", text)

\* the vital-sign checks, one operator per check; the reason strings hold
\* U+2014 and U+00B0 in the source and are written in ASCII here
Tachycardia(vitals) ==
    IF vitals.heart_rate # None /\ vitals.heart_rate > 150
    THEN <<RedFlag("tachycardia", "HR " \o ToString(vitals.heart_rate) \o " > 150")>>
    ELSE <<>>

Bradycardia(vitals) ==
    IF vitals.heart_rate # None /\ vitals.heart_rate < 40
    THEN <<RedFlag("bradycardia", "HR " \o ToString(vitals.heart_rate) \o " < 40")>>
    ELSE <<>>

Hypoxia(vitals) ==
    IF vitals.oxygen_saturation # None /\ vitals.oxygen_saturation < 90
    THEN <<RedFlag("hypoxia",
                   "SpO2 " \o ToString(vitals.oxygen_saturation) \o "% < 90%")>>
    ELSE <<>>

\* the fever check with a strict comparison
HighFever_Strict(vitals) ==
    IF vitals.temperature_f # None /\ vitals.temperature_f > 1040
    THEN <<RedFlag("high_fever",
                   "Temp " \o FloatStr(vitals.temperature_f) \o " F >= 104 F")>>
    ELSE <<>>

HighFever(vitals) ==
    IF vitals.temperature_f # None /\ vitals.temperature_f >= 1040
    THEN <<RedFlag("high_fever",
                   "Temp " \o FloatStr(vitals.temperature_f) \o " F >= 104 F")>>
    ELSE <<>>

Hypotension(vitals) ==
    IF vitals.blood_pressure_systolic # None /\ vitals.blood_pressure_systolic < 80
    THEN <<RedFlag("hypotension",
                   "SBP " \o ToString(vitals.blood_pressure_systolic) \o " < 80")>>
    ELSE <<>>

detect_red_flags(e) ==
    LET text == searchable(e)
        vitals == e.vitals
        combination ==
            IF Contains("chest pain", text) /\ has_sob(text)
            THEN <<RedFlag("chest_pain_with_sob",
                     "Chest pain combined with respiratory distress - high-risk cardiac")>>
            ELSE <<>>
        mental ==
            IF e.mental_status \in {"confused", "unresponsive"}
            THEN <<RedFlag("altered_mental_status",
                           "Mental status: " \o e.mental_status)>>
            ELSE <<>>
    IN  KeywordFlags(text) \o combination \o mental \o Tachycardia(vitals)
        \o Bradycardia(vitals) \o Hypoxia(vitals) \o HighFever(vitals)
        \o Hypotension(vitals)

---------------------------------------------------------------------------
(* compute_acuity: ordered tiers, each an early return.                    *)

\* the scorer asking that all flags, not any, be life threats
compute_acuity_AllLifeThreat(e, flags) ==
    LET vitals == e.vitals IN
    IF e.mental_status = "unresponsive" THEN 1
    ELSE IF \A i \in 1..Len(flags) : flags[i].name \in life_threat_flags THEN 1
    ELSE IF e.mental_status = "confused" THEN 2
    ELSE IF Len(flags) >= 2 THEN 2
    ELSE IF e.pain_scale # None /\ e.pain_scale >= 8 THEN 2
    ELSE IF Len(flags) >= 1 THEN 3
    ELSE IF e.pain_scale # None /\ e.pain_scale >= 5 THEN 3
    ELSE IF vitals.heart_rate # None
            /\ (vitals.heart_rate > 100 \/ vitals.heart_rate < 50) THEN 3
    ELSE IF vitals.temperature_f # None /\ vitals.temperature_f >= 1010 THEN 3
    ELSE IF vitals.oxygen_saturation # None /\ vitals.oxygen_saturation < 95 THEN 3
    ELSE IF Len(e.symptoms) >= 2 \/ e.pain_scale # None THEN 4
    ELSE 5

\* the scorer with severe pain starting above 8
compute_acuity_PainAbove8(e, flags) ==
    LET vitals == e.vitals IN
    IF e.mental_status = "unresponsive" THEN 1
    ELSE IF \E i \in 1..Len(flags) : flags[i].name \in life_threat_flags THEN 1
    ELSE IF e.mental_status = "confused" THEN 2
    ELSE IF Len(flags) >= 2 THEN 2
    ELSE IF e.pain_scale # None /\ e.pain_scale > 8 THEN 2
    ELSE IF Len(flags) >= 1 THEN 3
    ELSE IF e.pain_scale # None /\ e.pain_scale >= 5 THEN 3
    ELSE IF vitals.heart_rate # None
            /\ (vitals.heart_rate > 100 \/ vitals.heart_rate < 50) THEN 3
    ELSE IF vitals.temperature_f # None /\ vitals.temperature_f >= 1010 THEN 3
    ELSE IF vitals.oxygen_saturation # None /\ vitals.oxygen_saturation < 95 THEN 3
    ELSE IF Len(e.symptoms) >= 2 \/ e.pain_scale # None THEN 4
    ELSE 5

\* the scorer without the tier-3 rule for a single red flag
compute_acuity_NoSingleFlag(e, flags) ==
    LET vitals == e.vitals IN
    IF e.mental_status = "unresponsive" THEN 1
    ELSE IF \E i \in 1..Len(flags) : flags[i].name \in life_threat_flags THEN 1
    ELSE IF e.mental_status = "confused" THEN 2
    ELSE IF Len(flags) >= 2 THEN 2
    ELSE IF e.pain_scale # None /\ e.pain_scale >= 8 THEN 2
    ELSE IF e.pain_scale # None /\ e.pain_scale >= 5 THEN 3
    ELSE IF vitals.heart_rate # None
            /\ (vitals.heart_rate > 100 \/ vitals.heart_rate < 50) THEN 3
    ELSE IF vitals.temperature_f # None /\ vitals.temperature_f >= 1010 THEN 3
    ELSE IF vitals.oxygen_saturation # None /\ vitals.oxygen_saturation < 95 THEN 3
    ELSE IF Len(e.symptoms) >= 2 \/ e.pain_scale # None THEN 4
    ELSE 5

compute_acuity(e, flags) ==
    LET vitals == e.vitals IN
    IF e.mental_status = "unresponsive" THEN 1
    ELSE IF \E i \in 1..Len(flags) : flags[i].name \in life_threat_flags THEN 1
    ELSE IF e.mental_status = "confused" THEN 2
    ELSE IF Len(flags) >= 2 THEN 2
    ELSE IF e.pain_scale # None /\ e.pain_scale >= 8 THEN 2
    ELSE IF Len(flags) >= 1 THEN 3
    ELSE IF e.pain_scale # None /\ e.pain_scale >= 5 THEN 3
    ELSE IF vitals.heart_rate # None
            /\ (vitals.heart_rate > 100 \/ vitals.heart_rate < 50) THEN 3
    ELSE IF vitals.temperature_f # None /\ vitals.temperature_f >= 1010 THEN 3
    ELSE IF vitals.oxygen_saturation # None /\ vitals.oxygen_saturation < 95 THEN 3
    ELSE IF Len(e.symptoms) >= 2 \/ e.pain_scale # None THEN 4
    ELSE 5

---------------------------------------------------------------------------
(* assess: the composer.                                                   *)

\* the appended RedFlag left at the default severity
RiskRedFlags_DefaultSeverity(triggered) ==
    [i \in 1..Len(triggered) |->
        RedFlag(triggered[i].flag_type, triggered[i].human_explanation)]

\* the RedFlag appended for each triggered risk flag
RiskRedFlags(triggered) ==
    [i \in 1..Len(triggered) |->
        RedFlagSev(triggered[i].flag_type, triggered[i].human_explanation,
                   "critical")]

\* the clamp left out
ClampAcuity_Skipped(raw, escalate_by_risk) == raw

\* a triggered risk signal taking the acuity to 1
ClampAcuity_ToOne(raw, escalate_by_risk) ==
    IF escalate_by_risk THEN 1 ELSE raw

\* the clamp setting 2 whenever a risk signal triggered
ClampAcuity_Always(raw, escalate_by_risk) ==
    IF escalate_by_risk THEN 2 ELSE raw

\* the clamp: a triggered risk signal bumps the acuity to at least 2
ClampAcuity(raw, escalate_by_risk) ==
    IF escalate_by_risk /\ raw > 2 THEN 2 ELSE raw

\* escalation by acuity alone
Escalate_AcuityOnly(raw, triggered_risk_flags) == raw <= 2

\* escalation: acuity 1-2 or any critical risk signal triggered
Escalate(raw, triggered_risk_flags) ==
    LET escalate_by_acuity == raw <= 2
        escalate_by_risk == Len(triggered_risk_flags) > 0
    IN  escalate_by_acuity \/ escalate_by_risk

\* the disposition rule discharging from acuity 3
Disposition_From3(escalate, final_acuity, flags) ==
    IF escalate THEN "escalate"
    ELSE IF final_acuity >= 3 /\ Len(flags) = 0 THEN "discharge"
    ELSE "continue"

\* the disposition rule with the base schema's word for the last case
Disposition_Resolve(escalate, final_acuity, flags) ==
    IF escalate THEN "escalate"
    ELSE IF final_acuity >= 4 /\ Len(flags) = 0 THEN "resolve"
    ELSE "continue"

\* the disposition rule
Disposition(escalate, final_acuity, flags) ==
    IF escalate THEN "escalate"
    ELSE IF final_acuity >= 4 /\ Len(flags) = 0 THEN "discharge"
    ELSE "continue"

\* the escalation reason left at its default
EscalationReason_Default(triggered_risk_flags) == ""

\* the escalation reason joined by semicolons
EscalationReason_Semicolons(triggered_risk_flags) ==
    IF Len(triggered_risk_flags) > 0
    THEN Join("; ", [i \in 1..Len(triggered_risk_flags) |->
                        triggered_risk_flags[i].human_explanation])
    ELSE ""

\* the escalation reason built from the triggered risk flags
EscalationReason(triggered_risk_flags) ==
    IF Len(triggered_risk_flags) > 0
    THEN Join(" ", [i \in 1..Len(triggered_risk_flags) |->
                       triggered_risk_flags[i].human_explanation])
    ELSE ""

\* assess with the acuity of the scorer, before the clamp, in the summary
assess_SummaryBeforeClamp(e) ==
    LET triggered_risk_flags == evaluate_risk_signals(e.risk_signals)
        flags == detect_red_flags(e) \o RiskRedFlags(triggered_risk_flags)
        raw == compute_acuity(e, flags)
        escalate_by_risk == Len(triggered_risk_flags) > 0
        escalate == Escalate(raw, triggered_risk_flags)
        final_acuity == ClampAcuity(raw, escalate_by_risk)
        flag_names == [i \in 1..Len(flags) |-> flags[i].name]
        summary_parts ==
            <<"ESI-" \o ToString(raw)>>
            \o (IF Len(flags) > 0
                THEN <<"red flags: " \o Join(", ", flag_names)>> ELSE <<>>)
            \o (IF escalate THEN <<"ESCALATE">> ELSE <<>>)
        escalation_reason == EscalationReason(triggered_risk_flags)
    IN  [acuity |-> final_acuity,
         escalate |-> escalate,
         red_flags |-> flags,
         triggered_risk_flags |-> triggered_risk_flags,
         escalation_reason |-> escalation_reason,
         disposition |-> Disposition(escalate, final_acuity, flags),
         summary |-> Join(" | ", summary_parts)]

\* assess: the flags, the acuity, the escalation, the disposition and the
\* summary of one extraction
assess(e) ==
    LET triggered_risk_flags == evaluate_risk_signals(e.risk_signals)
        flags == detect_red_flags(e) \o RiskRedFlags(triggered_risk_flags)
        raw == compute_acuity(e, flags)
        escalate_by_risk == Len(triggered_risk_flags) > 0
        escalate == Escalate(raw, triggered_risk_flags)
        final_acuity == ClampAcuity(raw, escalate_by_risk)
        flag_names == [i \in 1..Len(flags) |-> flags[i].name]
        summary_parts ==
            <<"ESI-" \o ToString(final_acuity)>>
            \o (IF Len(flags) > 0
                THEN <<"red flags: " \o Join(", ", flag_names)>> ELSE <<>>)
            \o (IF escalate THEN <<"ESCALATE">> ELSE <<>>)
        escalation_reason == EscalationReason(triggered_risk_flags)
    IN  [acuity |-> final_acuity,
         escalate |-> escalate,
         red_flags |-> flags,
         triggered_risk_flags |-> triggered_risk_flags,
         escalation_reason |-> escalation_reason,
         disposition |-> Disposition(escalate, final_acuity, flags),
         summary |-> Join(" | ", summary_parts)]

---------------------------------------------------------------------------
(* Inputs: structurally valid extractions and flag lists, built from the   *)
(* defaults by at most MaxVaried single-field edits.                       *)

\* how many fields (or list entries) of an input differ from the defaults
MaxVaried == 2

ComplaintTexts == {"Chest Pain", "chest", "runny nose"}
SymptomTexts == {"shortness of breath", "pain", "congestion", "Overdose",
                 "can't breathe"}
PainValues == {0, 4, 5, 7, 8}
MentalValues == {"confused", "unresponsive", "drowsy"}
HeartRateValues == {39, 40, 50, 100, 150, 151}
OxygenValues == {89, 90, 94, 95}
TemperatureValues == {1009, 1010, 1039, 1040}
SystolicValues == {79, 80}

\* the risk-signal fields: indicator field, conviction field, flag type, the
\* indicator's non-default values, its danger value and whether it is a bool
RiskSignalTable == <<
    [indicator |-> "suicidal_ideation", conviction |-> "suicidal_ideation_conviction",
     flag_type |-> "SUICIDAL_IDEATION", values |-> {TRUE}, danger |-> TRUE, boolean |-> TRUE],
    [indicator |-> "self_harm_intent", conviction |-> "self_harm_intent_conviction",
     flag_type |-> "SELF_HARM", values |-> {TRUE}, danger |-> TRUE, boolean |-> TRUE],
    [indicator |-> "homicidal_ideation", conviction |-> "homicidal_ideation_conviction",
     flag_type |-> "HOMICIDAL_IDEATION", values |-> {TRUE}, danger |-> TRUE, boolean |-> TRUE],
    [indicator |-> "can_breathe", conviction |-> "can_breathe_conviction",
     flag_type |-> "CANNOT_BREATHE", values |-> {"yes", "no"}, danger |-> "no", boolean |-> FALSE],
    [indicator |-> "chest_pain", conviction |-> "chest_pain_conviction",
     flag_type |-> "CHEST_PAIN", values |-> {"yes", "no"}, danger |-> "yes", boolean |-> FALSE],
    [indicator |-> "neuro_deficit", conviction |-> "neuro_deficit_conviction",
     flag_type |-> "NEURO_DEFICIT", values |-> {"yes", "no"}, danger |-> "yes", boolean |-> FALSE],
    [indicator |-> "bleeding_uncontrolled", conviction |-> "bleeding_uncontrolled_conviction",
     flag_type |-> "BLEEDING_UNCONTROLLED", values |-> {"yes", "no"},
     danger |-> "yes", boolean |-> FALSE] >>

Signals == 1..Len(RiskSignalTable)

\* the threshold of signal k of the table
Threshold(k) == RISK_SIGNAL_THRESHOLDS[RiskSignalTable[k].flag_type]

\* convictions tried for a signal: just below its threshold and on it
ConvictionValues(k) == {Threshold(k) - 1, Threshold(k)}

\* flags a caller may hand to compute_acuity directly
FlagPool == {RedFlag("seizure", "Neurological emergency"),
             RedFlag("overdose", "Possible overdose"),
             RedFlagSev("CHEST_PAIN", RISK_FLAG_EXPLANATIONS["CHEST_PAIN"], "critical")}

\* the extractions one edit away from e
Edits(e) ==
    {[e EXCEPT !.chief_complaint = t] : t \in ComplaintTexts}
    \cup {[e EXCEPT !.symptoms = Append(@, t)] : t \in SymptomTexts}
    \cup {[e EXCEPT !.pain_scale = v] : v \in PainValues}
    \cup {[e EXCEPT !.mental_status = v] : v \in MentalValues}
    \cup {[e EXCEPT !.vitals.heart_rate = v] : v \in HeartRateValues}
    \cup {[e EXCEPT !.vitals.oxygen_saturation = v] : v \in OxygenValues}
    \cup {[e EXCEPT !.vitals.temperature_f = v] : v \in TemperatureValues}
    \cup {[e EXCEPT !.vitals.blood_pressure_systolic = v] : v \in SystolicValues}
    \cup UNION {{[e EXCEPT !.risk_signals[RiskSignalTable[k].indicator] = v] :
                    v \in RiskSignalTable[k].values} : k \in Signals}
    \cup UNION {{[e EXCEPT !.risk_signals[RiskSignalTable[k].conviction] = c] :
                    c \in ConvictionValues(k)} : k \in Signals}

\* how many fields (and symptom entries) of e differ from the defaults
Varied(e) ==
    LET d == DefaultExtraction
        riskFields == DOMAIN DefaultRiskSignals
        vitalFields == DOMAIN DefaultVitalSigns
    IN  (IF e.chief_complaint # d.chief_complaint THEN 1 ELSE 0)
        + Len(e.symptoms)
        + (IF e.pain_scale # d.pain_scale THEN 1 ELSE 0)
        + (IF e.mental_status # d.mental_status THEN 1 ELSE 0)
        + Cardinality({f \in vitalFields : e.vitals[f] # d.vitals[f]})
        + Cardinality({f \in riskFields : e.risk_signals[f] # d.risk_signals[f]})

---------------------------------------------------------------------------
(* The calls.  The extraction step fills in the input field by field; the  *)
(* engine's functions are then called on it.                               *)

NoResult == <<>>

\* IncidentMode
IncidentModes == {"chat", "voice"}

\* the row IncidentRepository.create inserts, with its initial history
NewIncident(mode) ==
    [status |-> "OPEN", mode |-> mode, severity |-> "UNASSIGNED",
     history |-> <<[type |-> "system_created", domain |-> "medical",
                    mode |-> mode]>>]

\* no message request is in flight
NoTurn == [pc |-> "idle"]

\* no request has returned yet
NoResponse == [request |-> "none"]

\* the engine before any call, and the store after one incident was created
Init ==
    /\ extraction = DefaultExtraction
    /\ red_flags = <<>>
    /\ assessment = NoResult
    /\ prev_assessment = NoResult
    /\ acuity = NoResult
    /\ prev_acuity = NoResult
    /\ op = "input"
    /\ arg = ""
    /\ incident \in {NewIncident(mode) : mode \in IncidentModes}
    /\ messages = <<>>
    /\ assessments = <<>>
    /\ audit_events = <<>>
    /\ turn = NoTurn
    /\ response = NoResponse
    /\ requests = 0
    /\ appends = <<>>

\* the extraction step sets one more field of the extraction
Extract ==
    /\ op = "input"
    /\ Varied(extraction) + Len(red_flags) < MaxVaried
    /\ \E e \in Edits(extraction) :
          /\ Varied(e) > Varied(extraction)
          /\ extraction' = e
    /\ UNCHANGED <<assessment, prev_assessment, red_flags, acuity, prev_acuity,
                   op, arg>>
    /\ UNCHANGED service_vars

\* a caller of compute_acuity puts one more flag on the list it will pass
GiveFlag ==
    /\ op = "input"
    /\ Varied(extraction) + Len(red_flags) < MaxVaried
    /\ \E f \in FlagPool : red_flags' = Append(red_flags, f)
    /\ UNCHANGED <<extraction, assessment, prev_assessment, acuity, prev_acuity,
                   op, arg>>
    /\ UNCHANGED service_vars

\* assess(extraction)
Assess ==
    /\ op = "input"
    /\ red_flags = <<>>
    /\ assessment' = <<assess(extraction)>>
    /\ op' = "assess"
    /\ UNCHANGED <<extraction, prev_assessment, red_flags, acuity, prev_acuity, arg>>
    /\ UNCHANGED service_vars

\* keywords of the table a later call may find appended as a symptom
AppendKeywords == {"chest pain", "difficulty breathing", "seizure", "dying"}

\* assess on the extraction with one more red-flag keyword appended as a symptom
AssessWithKeyword ==
    /\ op = "assess"
    /\ Varied(extraction) < MaxVaried
    /\ \E kw \in AppendKeywords :
          /\ extraction' = [extraction EXCEPT !.symptoms = Append(@, kw)]
          /\ arg' = kw
    /\ assessment' = <<assess(extraction')>>
    /\ prev_assessment' = assessment
    /\ op' = "assess_keyword"
    /\ UNCHANGED <<red_flags, acuity, prev_acuity>>
    /\ UNCHANGED service_vars

\* whether signal k of the table triggers in risk_signals
Triggers(risk_signals, k) ==
    LET triggered == evaluate_risk_signals(risk_signals)
    IN  \E i \in 1..Len(triggered) :
            triggered[i].flag_type = RiskSignalTable[k].flag_type

\* assess on the extraction with one non-triggering signal's conviction raised
\* to at least its threshold
AssessWithSignal ==
    /\ op = "assess"
    /\ Varied(extraction) < MaxVaried
    /\ \E k \in Signals :
          /\ ~Triggers(extraction.risk_signals, k)
          /\ \E c \in {Threshold(k), 100} :
                extraction' = [extraction EXCEPT
                                  !.risk_signals[RiskSignalTable[k].conviction] = c]
          /\ arg' = RiskSignalTable[k].flag_type
    /\ assessment' = <<assess(extraction')>>
    /\ prev_assessment' = assessment
    /\ op' = "assess_signal"
    /\ UNCHANGED <<red_flags, acuity, prev_acuity>>
    /\ UNCHANGED service_vars

\* compute_acuity(extraction, red_flags), called directly
ComputeAcuity ==
    /\ op = "input"
    /\ acuity' = <<compute_acuity(extraction, red_flags)>>
    /\ op' = "compute_acuity"
    /\ UNCHANGED <<extraction, assessment, prev_assessment, red_flags, prev_acuity, arg>>
    /\ UNCHANGED service_vars

\* s with x inserted before position p
InsertAt(s, p, x) == SubSeq(s, 1, p - 1) \o <<x>> \o SubSeq(s, p, Len(s))

\* compute_acuity on the same extraction with one more flag in the list
ComputeAcuityMore ==
    /\ op \in {"compute_acuity", "compute_acuity_more"}
    /\ Varied(extraction) + Len(red_flags) < MaxVaried
    /\ \E f \in FlagPool, p \in 1..(Len(red_flags) + 1) :
          /\ red_flags' = InsertAt(red_flags, p, f)
          /\ arg' = f.name
    /\ acuity' = <<compute_acuity(extraction, red_flags')>>
    /\ prev_acuity' = acuity
    /\ op' = "compute_acuity_more"
    /\ UNCHANGED <<extraction, assessment, prev_assessment>>
    /\ UNCHANGED service_vars

Next ==
    \/ Extract
    \/ GiveFlag
    \/ Assess
    \/ AssessWithKeyword
    \/ AssessWithSignal
    \/ ComputeAcuity
    \/ ComputeAcuityMore

Spec == Init /\ [][Next]_vars

---------------------------------------------------------------------------
(* Properties of the assessment.                                           *)

\* assess has been applied to the current extraction
Assessed == op \in {"assess", "assess_keyword", "assess_signal"}

\* the Assessment of the current extraction
Result == assessment[1]

\* the list assess gives to compute_acuity: keyword flags, then risk flags
CombinedFlags(e) ==
    detect_red_flags(e) \o RiskRedFlags(evaluate_risk_signals(e.risk_signals))

\* C1: escalate is true iff the final acuity is <= 2 or a risk flag triggered
C1_EscalationEquivalence ==
    Assessed =>
        (Result.escalate <=>
            (Result.acuity <= 2 \/ Len(Result.triggered_risk_flags) > 0))

\* C1 witness: escalated by a risk signal alone, the scorer's value was > 2
C1_Witness ==
    /\ Assessed
    /\ Result.escalate
    /\ Len(Result.triggered_risk_flags) > 0
    /\ compute_acuity(extraction, CombinedFlags(extraction)) > 2

\* C2: when a risk signal triggers the final acuity is <= 2: exactly 2 when
\* the scorer returned more than 2, the scorer's 1 or 2 otherwise
C2_ClampLaw ==
    (Assessed /\ Len(evaluate_risk_signals(extraction.risk_signals)) > 0) =>
        LET raw == compute_acuity(extraction, CombinedFlags(extraction))
        IN  /\ Result.acuity <= 2
            /\ raw > 2 => Result.acuity = 2
            /\ raw <= 2 => Result.acuity = raw

\* C2 witness: a risk signal triggered and the scorer's 3 became 2
C2_Witness ==
    /\ Assessed
    /\ Len(evaluate_risk_signals(extraction.risk_signals)) > 0
    /\ compute_acuity(extraction, CombinedFlags(extraction)) = 3
    /\ Result.acuity = 2

\* C3: disposition is escalate iff escalate; otherwise discharge exactly when
\* the final acuity is >= 4 with no red flag, continue in every other case
C3_DispositionRule ==
    Assessed =>
        /\ Result.disposition = "escalate" <=> Result.escalate
        /\ ~Result.escalate =>
              IF Result.acuity >= 4 /\ Len(Result.red_flags) = 0
              THEN Result.disposition = "discharge"
              ELSE Result.disposition = "continue"

\* C3 witness: a non-escalated acuity 3 without red flags continues
C3_Witness ==
    /\ Assessed
    /\ ~Result.escalate
    /\ Result.acuity = 3
    /\ Len(Result.red_flags) = 0
    /\ Result.disposition = "continue"

\* compute_acuity has been called directly on extraction and red_flags
Scored == op \in {"compute_acuity", "compute_acuity_more"}

\* C4: a flag list with additional flags never scores a higher acuity number
\* on the same extraction
C4_ScorerMonotone ==
    op = "compute_acuity_more" => acuity[1] <= prev_acuity[1]

\* C4 witness: one more flag lowered the level of the same extraction
C4_Witness ==
    /\ op = "compute_acuity_more"
    /\ Len(red_flags) >= 2
    /\ acuity[1] < prev_acuity[1]

\* C5: one more red-flag keyword as a symptom, or one more triggering risk
\* signal, never raises the acuity number and never withdraws an escalation
C5_AssessMonotone ==
    op \in {"assess_keyword", "assess_signal"} =>
        /\ Result.acuity <= prev_assessment[1].acuity
        /\ prev_assessment[1].escalate => Result.escalate

\* C5 witness: a signal raised to its threshold turned a non-escalated
\* assessment into an escalated one of lower acuity number
C5_Witness ==
    /\ op = "assess_signal"
    /\ ~prev_assessment[1].escalate
    /\ Result.escalate
    /\ Result.acuity < prev_assessment[1].acuity

\* the life-threat names as the claim lists them
C6_LifeThreatNames ==
    {"chest_pain_with_sob", "severe bleeding", "anaphylaxis", "heart attack",
     "cardiac arrest", "dying", "going to die", "overdose"}

\* C6: acuity 1 exactly when unresponsive or a combined flag is a life
\* threat; then escalate is true and disposition is escalate
C6_Esi1Rule ==
    Assessed =>
        /\ Result.acuity = 1 <=>
              \/ extraction.mental_status = "unresponsive"
              \/ \E i \in 1..Len(Result.red_flags) :
                    Result.red_flags[i].name \in C6_LifeThreatNames
        /\ Result.acuity = 1 =>
              Result.escalate /\ Result.disposition = "escalate"

\* C6 witness: a life-threat keyword gives acuity 1 to an alert patient,
\* with a risk signal triggered or a pain scale present
C6_Witness ==
    /\ Assessed
    /\ Result.acuity = 1
    /\ extraction.mental_status = "alert"
    /\ \/ Len(Result.triggered_risk_flags) > 0
       \/ extraction.pain_scale # None

\* the tiers of the claim, each as a condition on extraction and flag list
C7_Tier1(e, F) ==
    \/ e.mental_status = "unresponsive"
    \/ \E i \in 1..Len(F) : F[i].name \in C6_LifeThreatNames
C7_Tier2(e, F) ==
    \/ e.mental_status = "confused"
    \/ Len(F) >= 2
    \/ (e.pain_scale # None /\ e.pain_scale >= 8)
C7_Tier3(e, F) ==
    \/ Len(F) >= 1
    \/ (e.pain_scale # None /\ e.pain_scale >= 5)
    \/ (e.vitals.heart_rate # None
        /\ (e.vitals.heart_rate > 100 \/ e.vitals.heart_rate < 50))
    \/ (e.vitals.temperature_f # None /\ e.vitals.temperature_f >= 1010)
    \/ (e.vitals.oxygen_saturation # None /\ e.vitals.oxygen_saturation < 95)
C7_Tier4(e, F) ==
    \/ Len(e.symptoms) >= 2
    \/ e.pain_scale # None

\* the level of the first tier that matches, 5 when none does
C7_FirstTier(e, F) ==
    LET matching == {n \in 1..5 : \/ n = 1 /\ C7_Tier1(e, F)
                                  \/ n = 2 /\ C7_Tier2(e, F)
                                  \/ n = 3 /\ C7_Tier3(e, F)
                                  \/ n = 4 /\ C7_Tier4(e, F)
                                  \/ n = 5}
    IN  CHOOSE n \in matching : \A k \in matching : n <= k

\* C7: compute_acuity returns the level of the first matching tier
C7_OrderedTiers ==
    Scored => acuity[1] = C7_FirstTier(extraction, red_flags)

\* C7 witness: severe pain decides tier 2 although tier 3 matches as well
C7_Witness ==
    /\ Scored
    /\ acuity[1] = 2
    /\ extraction.pain_scale = 8
    /\ Len(red_flags) = 1
    /\ C7_Tier3(extraction, red_flags)

\* the thresholds as the claims state them, in hundredths
C9_Threshold(k) ==
    CASE RiskSignalTable[k].flag_type \in {"SUICIDAL_IDEATION", "SELF_HARM"} -> 20
      [] RiskSignalTable[k].flag_type = "HOMICIDAL_IDEATION" -> 40
      [] OTHER -> 50

\* positions of signal k's flag in a list of triggered risk flags
FlagPositions(triggered, k) ==
    {i \in 1..Len(triggered) : triggered[i].flag_type = RiskSignalTable[k].flag_type}

\* str() of the danger value of signal k
DangerString(k) ==
    IF RiskSignalTable[k].boolean THEN PyStr(RiskSignalTable[k].danger)
    ELSE RiskSignalTable[k].danger

\* C8: a signal whose indicator has the danger value is emitted exactly once,
\* at any conviction, with the raw value, the conviction and its threshold
C8_DangerTriggers ==
    Assessed =>
        \A k \in Signals :
            LET rs == extraction.risk_signals
                hits == FlagPositions(Result.triggered_risk_flags, k)
            IN  rs[RiskSignalTable[k].indicator] = RiskSignalTable[k].danger =>
                    /\ Cardinality(hits) = 1
                    /\ \A i \in hits :
                          LET trf == Result.triggered_risk_flags[i]
                          IN  /\ trf.signal_value = DangerString(k)
                              /\ trf.conviction = rs[RiskSignalTable[k].conviction]
                              /\ trf.threshold = C9_Threshold(k)

\* C8 witness: a danger value at conviction 0.0 is emitted while another
\* signal is set as well
C8_Witness ==
    /\ Assessed
    /\ \E k, j \in Signals :
          LET rs == extraction.risk_signals
          IN  /\ k # j
              /\ rs[RiskSignalTable[k].indicator] = RiskSignalTable[k].danger
              /\ rs[RiskSignalTable[k].conviction] = 0
              /\ FlagPositions(Result.triggered_risk_flags, k) # {}
              /\ rs[RiskSignalTable[j].conviction] > 0

\* C9: a signal whose indicator is not the danger value triggers iff its
\* conviction is >= its threshold
C9_ThresholdBoundary ==
    Assessed =>
        \A k \in Signals :
            LET rs == extraction.risk_signals
            IN  rs[RiskSignalTable[k].indicator] # RiskSignalTable[k].danger =>
                    (FlagPositions(Result.triggered_risk_flags, k) # {}
                     <=> rs[RiskSignalTable[k].conviction] >= C9_Threshold(k))

\* C9 witness: one signal exactly on its threshold triggers, another just
\* below its threshold does not, neither indicator having the danger value
C9_Witness ==
    /\ Assessed
    /\ \E k, j \in Signals :
          LET rs == extraction.risk_signals
          IN  /\ rs[RiskSignalTable[k].indicator] # RiskSignalTable[k].danger
              /\ rs[RiskSignalTable[k].conviction] = C9_Threshold(k)
              /\ FlagPositions(Result.triggered_risk_flags, k) # {}
              /\ rs[RiskSignalTable[j].indicator] # RiskSignalTable[j].danger
              /\ rs[RiskSignalTable[j].conviction] = C9_Threshold(j) - 1
              /\ FlagPositions(Result.triggered_risk_flags, j) = {}

\* C10: red_flags is the detector's list followed by one critical RedFlag
\* per triggered risk flag, in order, named after the flag type and carrying
\* its explanation
C10_CombinedFlagList ==
    Assessed =>
        LET detected == detect_red_flags(extraction)
            triggered == Result.triggered_risk_flags
        IN  /\ Len(Result.red_flags) = Len(detected) + Len(triggered)
            /\ SubSeq(Result.red_flags, 1, Len(detected)) = detected
            /\ \A i \in 1..Len(triggered) :
                  Result.red_flags[Len(detected) + i] =
                      [name |-> triggered[i].flag_type,
                       reason |-> triggered[i].human_explanation,
                       severity |-> "critical"]

\* C10 witness: a keyword flag followed by a risk flag
C10_Witness ==
    /\ Assessed
    /\ Len(detect_red_flags(extraction)) >= 1
    /\ Len(Result.triggered_risk_flags) >= 1
    /\ Len(Result.red_flags) >= 2

---------------------------------------------------------------------------
\* the names of the flags detect_red_flags returns for the current input
DetectedNames ==
    LET flags == detect_red_flags(extraction)
    IN  {flags[i].name : i \in 1..Len(flags)}

\* the number of flags named n in a list of flags
DetectedCount(flags, n) ==
    Cardinality({i \in 1..Len(flags) : flags[i].name = n})

\* C11: detect_red_flags emits tachycardia iff heart_rate is present and > 150,
\* bradycardia iff heart_rate is present and < 40, hypoxia iff
\* oxygen_saturation is present and < 90, high_fever iff temperature_f is
\* present and >= 104.0, hypotension iff blood_pressure_systolic is present
\* and < 80; each flag depends on its own vital only and is emitted once.
C11_VitalFlags ==
    Assessed =>
        LET v == extraction.vitals
            flags == detect_red_flags(extraction)
            names == {flags[i].name : i \in 1..Len(flags)}
        IN
        /\ ("tachycardia" \in names)
              <=> (v.heart_rate # None /\ v.heart_rate > 150)
        /\ ("bradycardia" \in names)
              <=> (v.heart_rate # None /\ v.heart_rate < 40)
        /\ ("hypoxia" \in names)
              <=> (v.oxygen_saturation # None /\ v.oxygen_saturation < 90)
        /\ ("high_fever" \in names)
              <=> (v.temperature_f # None /\ v.temperature_f >= 1040)
        /\ ("hypotension" \in names)
              <=> (v.blood_pressure_systolic # None
                   /\ v.blood_pressure_systolic < 80)
        /\ \A n \in {"tachycardia", "bradycardia", "hypoxia", "high_fever",
                     "hypotension"} : DetectedCount(flags, n) <= 1
        /\ \A n \in names :
              \E i \in 1..Len(Result.red_flags) : Result.red_flags[i].name = n

\* a fever of exactly 104.0 flagged next to a heart rate at the boundary 150,
\* which does not flag
C11_Witness ==
    /\ Assessed
    /\ extraction.vitals.temperature_f = 1040
    /\ extraction.vitals.heart_rate = 150
    /\ "high_fever" \in DetectedNames
    /\ "tachycardia" \notin DetectedNames

---------------------------------------------------------------------------
\* the respiratory group of the keyword table
BreathingKeywords ==
    {"difficulty breathing", "shortness of breath", "can't breathe",
     "cannot breathe", "choking"}

\* C12: whenever the search text holds the chest-pain keyword and one of the
\* five breathing-distress keywords, detect_red_flags emits
\* chest_pain_with_sob and assess returns acuity 1 with escalate true.
C12_CombinationRule ==
    Assessed =>
        ((/\ Contains("chest pain", searchable(extraction))
          /\ \E k \in BreathingKeywords : Contains(k, searchable(extraction)))
         => /\ "chest_pain_with_sob" \in DetectedNames
            /\ Result.acuity = 1
            /\ Result.escalate)

---------------------------------------------------------------------------
\* C13: for every structurally valid Extraction assess returns a value: an
\* Assessment the result schema accepts, with acuity in 1..5, a disposition
\* among escalate, discharge and continue, and triggered flags whose type,
\* conviction and threshold pass the schema's validation.
C13_Totality ==
    Assessed =>
        /\ Len(assessment) = 1
        /\ Result.acuity \in 1..5
        /\ Result.disposition \in {"escalate", "discharge", "continue"}
        /\ Result.escalate \in BOOLEAN
        /\ \A i \in 1..Len(Result.triggered_risk_flags) :
              /\ \E j \in 1..Len(RiskFlagTypes) :
                    Result.triggered_risk_flags[i].flag_type = RiskFlagTypes[j]
              /\ Result.triggered_risk_flags[i].conviction \in 0..100
              /\ Result.triggered_risk_flags[i].threshold \in 0..100

\* an assessment of an input with a mental status outside the two the rules
\* know, which ends in a discharge
C13_Witness ==
    /\ Assessed
    /\ extraction.mental_status = "drowsy"
    /\ Result.disposition = "discharge"
    /\ Result.acuity = 5

---------------------------------------------------------------------------
\* the fixed order of the risk flags, by the signal each one reads
C15_Order ==
    <<"SUICIDAL_IDEATION", "SELF_HARM", "HOMICIDAL_IDEATION", "CANNOT_BREATHE",
      "CHEST_PAIN", "NEURO_DEFICIT", "BLEEDING_UNCONTROLLED">>

\* the explanation the result carries for flag type t
C15_Explanation(t) ==
    LET f == CHOOSE f \in {Result.triggered_risk_flags[i]
                              : i \in 1..Len(Result.triggered_risk_flags)}
                 : f.flag_type = t
    IN  f.human_explanation

\* the flag types of the result's triggered flags, in the fixed order
C15_TriggeredInOrder ==
    LET Hit(t) == \E i \in 1..Len(Result.triggered_risk_flags) :
                      Result.triggered_risk_flags[i].flag_type = t
    IN  SelectSeq(C15_Order, Hit)

\* C15: assess sets escalation_reason to the human_explanation texts of the
\* triggered risk flags joined by single spaces, in the fixed table order; it
\* is the empty string if and only if no risk signal triggered.
C15_EscalationReason ==
    Assessed =>
        /\ Result.escalation_reason =
              Join(" ", [i \in 1..Len(C15_TriggeredInOrder) |->
                            C15_Explanation(C15_TriggeredInOrder[i])])
        /\ [i \in 1..Len(Result.triggered_risk_flags) |->
               Result.triggered_risk_flags[i].flag_type] = C15_TriggeredInOrder
        /\ (Result.escalation_reason = "")
              <=> (\A k \in Signals : ~Triggers(extraction.risk_signals, k))

\* two signals triggered: the reason is the first explanation, one space, the
\* second explanation
C15_Witness ==
    /\ Assessed
    /\ Len(Result.triggered_risk_flags) = 2
    /\ Result.triggered_risk_flags[1].flag_type = "SELF_HARM"
    /\ Result.triggered_risk_flags[2].flag_type = "CHEST_PAIN"
    /\ Result.escalation_reason =
          "Patient may be expressing intent to self-harm; policy requires immediate escalation."
          \o " "
          \o "Patient reports chest pain; cardiac emergency must be ruled out."

---------------------------------------------------------------------------
\* C16 as stated: whenever assess returns escalate = true, escalation_reason
\* is a non-empty string.
C16_EscalatedHasReason ==
    Assessed => (Result.escalate => Result.escalation_reason # "")

\* C16 amended: whenever assess returns escalate = true with at least one
\* triggered risk flag, escalation_reason is a non-empty string; an
\* assessment escalated by its acuity alone has the empty escalation_reason.
C16_RiskEscalationHasReason ==
    Assessed =>
        (Result.escalate =>
            IF Len(Result.triggered_risk_flags) > 0
            THEN Len(Result.escalation_reason) > 0
            ELSE Result.escalation_reason = "" /\ Result.acuity <= 2)

\* an escalation by a risk signal alone, with its reason
C16_Witness ==
    /\ Assessed
    /\ Result.escalate
    /\ Len(Result.triggered_risk_flags) = 1
    /\ Len(detect_red_flags(extraction)) = 0
    /\ Len(Result.escalation_reason) > 0

---------------------------------------------------------------------------
(* The service: one incident, the message handlers send_message and        *)
(* send_voice / run_voice_pipeline, and the status endpoints.  A message   *)
(* request runs in steps, so a status request can land between them.       *)

\* how many requests the service receives in one run
MaxRequests == 2

\* what the extraction step of a request can hand to the rules: the patient's
\* words and the MedicalExtraction made from them (by the LLM, which may
\* return any structurally valid value, or by the deterministic fallback)
TurnInputs ==
    { [content |-> "I have a runny nose",
       extraction |-> [DefaultExtraction EXCEPT
                          !.chief_complaint = "runny nose",
                          !.symptoms = <<"runny nose">>]],
      [content |-> "I have chest pain and shortness of breath",
       extraction |-> [DefaultExtraction EXCEPT
                          !.chief_complaint = "chest pain",
                          !.symptoms = <<"shortness of breath">>]],
      [content |-> "my chest feels tight",
       extraction |-> [DefaultExtraction EXCEPT
                          !.chief_complaint = "tightness",
                          !.symptoms = <<"tightness">>,
                          !.risk_signals.chest_pain = "yes"]],
      [content |-> "want to end it",
       extraction |-> [DefaultExtraction EXCEPT
                          !.chief_complaint = "want to end it",
                          !.risk_signals.suicidal_ideation = TRUE,
                          !.risk_signals.suicidal_ideation_conviction = 95,
                          !.risk_signals.self_harm_intent = TRUE,
                          !.risk_signals.self_harm_intent_conviction = 90]],
      [content |-> "I had a seizure",
       extraction |-> [DefaultExtraction EXCEPT
                          !.chief_complaint = "seizure"]],
      [content |-> "my head hurts, about a five",
       extraction |-> [DefaultExtraction EXCEPT
                          !.chief_complaint = "headache",
                          !.symptoms = <<"headache">>,
                          !.pain_scale = 5]],
      [content |-> "the worst pain of my life, a nine",
       extraction |-> [DefaultExtraction EXCEPT
                          !.chief_complaint = "back",
                          !.symptoms = <<"back hurts">>,
                          !.pain_scale = 9]],
      [content |-> "headache, five, I take aspirin, no allergies but asthma",
       extraction |-> [DefaultExtraction EXCEPT
                          !.chief_complaint = "headache",
                          !.symptoms = <<"headache">>,
                          !.pain_scale = 5,
                          !.medical_history = <<"asthma">>,
                          !.allergies = <<"none">>,
                          !.medications = <<"aspirin">>]] }

\* assess on each extraction a request can carry, evaluated once
AssessTable == [e \in {input.extraction : input \in TurnInputs} |-> assess(e)]

\* ACUITY_TO_SEVERITY.get(acuity, Severity.UNASSIGNED).value
Severity(level) ==
    IF level \in 1..5 THEN "ESI-" \o ToString(level) ELSE "UNASSIGNED"

\* a JSON string inside a stored payload
JsonString(s) == [json |-> "string", value |-> s]

\* [trf.flag_type.value for trf in assessment.triggered_risk_flags]
triggered_flags_list(a) ==
    [i \in 1..Len(a.triggered_risk_flags) |-> a.triggered_risk_flags[i].flag_type]

\* the fixed reply texts
EscalationMessage ==
    "Based on what you've told me, this requires immediate medical attention. "
    \o "I'm escalating your case to a medical professional right away."

ConcernsMessage ==
    "I've noted some concerns in what you've described. "
    \o "Please continue to describe your symptoms so I can complete your assessment."

MinorConcernMessage ==
    "Based on your symptoms, this appears to be a minor concern. "
    \o "Please monitor your symptoms and seek care if they worsen."

GenerateFailedMessage ==
    "I'm having trouble generating a response. Please try again."

\* the reply composer with the minor-concern text for every turn that does
\* not escalate
generate_response_MinorUnlessEscalated(e, a) ==
    IF a.escalate \/ Len(a.triggered_risk_flags) > 0 THEN EscalationMessage
    ELSE MinorConcernMessage

\* _generate_response(extraction, assessment) of the chat handler
generate_response(e, a) ==
    LET has_risk_flags == Len(a.triggered_risk_flags) > 0
        has_red_flags == Len(a.red_flags) > 0
    IN  IF a.escalate \/ has_risk_flags
        THEN IF has_risk_flags /\ a.escalation_reason # ""
             THEN EscalationMessage \o "\n\nReason: " \o a.escalation_reason
             ELSE EscalationMessage
        ELSE IF has_red_flags THEN ConcernsMessage
        ELSE IF a.disposition = "discharge" THEN MinorConcernMessage
        ELSE IF Len(e.symptoms) = 0
             THEN "Can you describe your symptoms in more detail?"
        ELSE IF e.pain_scale = None
             THEN "On a scale of 0-10, how would you rate your pain?"
        ELSE IF Len(e.medical_history) = 0
             THEN "Do you have any relevant medical history I should know about?"
        ELSE IF Len(e.allergies) = 0 THEN "Do you have any known allergies?"
        ELSE IF Len(e.medications) = 0
             THEN "Are you currently taking any medications?"
        ELSE "Thank you. I have enough information to complete your triage assessment."

\* what a call of generate_fn can do: return a text, or raise
GenerateOutcomes ==
    { [ok |-> TRUE, text |-> "Could you tell me more about how you feel?"],
      [ok |-> FALSE, text |-> "model timeout"] }

\* step 4 of the pipeline without the red-flag branch
pipeline_response_NoRedFlagBranch(a, gen) ==
    LET has_risk_flags == Len(a.triggered_risk_flags) > 0
    IN  IF a.escalate \/ has_risk_flags
        THEN [response_text |->
                 IF has_risk_flags /\ a.escalation_reason # ""
                 THEN EscalationMessage \o " " \o a.escalation_reason
                 ELSE EscalationMessage,
              generate_called |-> FALSE, failed |-> <<>>]
        ELSE IF gen.ok
        THEN [response_text |-> gen.text, generate_called |-> TRUE,
              failed |-> <<>>]
        ELSE [response_text |-> GenerateFailedMessage, generate_called |-> TRUE,
              failed |-> <<gen.text>>]

\* step 4 of run_voice_pipeline: the reply, whether generate_fn was called, and
\* the error it raised if it did
pipeline_response(a, gen) ==
    LET has_risk_flags == Len(a.triggered_risk_flags) > 0
        has_red_flags == Len(a.red_flags) > 0
    IN  IF a.escalate \/ has_risk_flags
        THEN [response_text |->
                 IF has_risk_flags /\ a.escalation_reason # ""
                 THEN EscalationMessage \o " " \o a.escalation_reason
                 ELSE EscalationMessage,
              generate_called |-> FALSE, failed |-> <<>>]
        ELSE IF has_red_flags
        THEN [response_text |-> ConcernsMessage, generate_called |-> FALSE,
              failed |-> <<>>]
        ELSE IF gen.ok
        THEN [response_text |-> gen.text, generate_called |-> TRUE,
              failed |-> <<>>]
        ELSE [response_text |-> GenerateFailedMessage, generate_called |-> TRUE,
              failed |-> <<gen.text>>]

\* the rows the repositories insert
Message(role, content_text) == [role |-> role, content_text |-> content_text]

AssessmentRow(a) == [domain |-> "medical", result_json |-> a]

\* int((time.monotonic() - t0) * 1000), the milliseconds a handler measures
\* around a step: the steps of the model take no time
elapsed_ms == 0

AuditEvent(step, payload_json) ==
    [step |-> step, payload_json |-> payload_json, model_used |-> "",
     trace_id |-> turn.trace_id, latency_ms |-> elapsed_ms]

\* an event that names the model that did the step
AuditEventBy(step, payload_json, model_used) ==
    [step |-> step, payload_json |-> payload_json, model_used |-> model_used,
     trace_id |-> turn.trace_id, latency_ms |-> elapsed_ms]

\* the risk_signals summary both handlers log with TOOL_RESULT_EXTRACT
risk_signals_summary(rs) ==
    [suicidal_ideation |-> rs.suicidal_ideation,
     suicidal_ideation_conviction |-> rs.suicidal_ideation_conviction,
     self_harm_intent |-> rs.self_harm_intent,
     self_harm_intent_conviction |-> rs.self_harm_intent_conviction,
     chest_pain |-> rs.chest_pain,
     chest_pain_conviction |-> rs.chest_pain_conviction,
     can_breathe |-> rs.can_breathe,
     can_breathe_conviction |-> rs.can_breathe_conviction]

ToolResultExtract(e) ==
    AuditEvent("TOOL_RESULT_EXTRACT",
               [tool |-> "extract_structured",
                symptoms_count |-> Len(e.symptoms),
                pain_scale |-> e.pain_scale,
                mental_status |-> e.mental_status,
                risk_signals |-> risk_signals_summary(e.risk_signals)])

\* the TOOL_RESULT_RULES event of send_message
ChatToolResultRules(a) ==
    AuditEvent("TOOL_RESULT_RULES",
               [tool |-> "evaluate_rules",
                acuity |-> a.acuity,
                escalate |-> a.escalate,
                disposition |-> a.disposition,
                triggered_risk_flags |->
                    [i \in 1..Len(a.triggered_risk_flags) |->
                        JsonString(triggered_flags_list(a)[i])],
                red_flags_count |-> Len(a.red_flags),
                human_explanation |->
                    "ESI-" \o ToString(a.acuity) \o " triage level."
                    \o (IF a.escalate THEN " ESCALATION REQUIRED." ELSE "")
                    \o (IF Len(a.triggered_risk_flags) > 0
                        THEN " Triggered flags: "
                             \o Join(", ", triggered_flags_list(a)) \o "."
                        ELSE "")
                    \o (IF Len(a.red_flags) > 0
                        THEN " " \o ToString(Len(a.red_flags))
                             \o " red flags detected."
                        ELSE "")])

\* the TOOL_RESULT_RULES event of run_voice_pipeline
VoiceToolResultRules(a) ==
    AuditEvent("TOOL_RESULT_RULES",
               [tool |-> "evaluate_rules",
                acuity |-> a.acuity,
                escalate |-> a.escalate,
                triggered_risk_flags |->
                    [i \in 1..Len(a.triggered_risk_flags) |->
                        JsonString(triggered_flags_list(a)[i])],
                human_explanation |->
                    "ESI-" \o ToString(a.acuity) \o " triage level."
                    \o (IF a.escalate THEN " ESCALATION REQUIRED." ELSE "")
                    \o (IF Len(a.triggered_risk_flags) > 0
                        THEN " Triggered: "
                             \o Join(", ", triggered_flags_list(a)) \o "."
                        ELSE "")])

\* the AGENT_DECISION event of send_message
AgentDecision(a) ==
    AuditEvent("AGENT_DECISION",
               [action |-> IF a.escalate THEN "escalate"
                           ELSE IF a.disposition = "discharge" THEN "advise"
                           ELSE "ask",
                disposition |-> a.disposition])

\* the history entries a message request appends
UserMessageInteraction(content, source) ==
    [type |-> "user_message", content |-> content, source |-> source]

AssessmentInteraction(a) ==
    [type |-> "assessment", acuity |-> a.acuity,
     severity |-> Severity(a.acuity), disposition |-> a.disposition,
     escalate |-> a.escalate,
     red_flags |-> [i \in 1..Len(a.red_flags) |->
                       [name |-> a.red_flags[i].name,
                        reason |-> a.red_flags[i].reason]]]

AssistantMessageInteraction(content, source) ==
    [type |-> "assistant_message", content |-> content, source |-> source]

\* the rules step taking the incident back to OPEN when the assessment does
\* not escalate
RecordAssessment_StatusFollowsTurn(row, content, source, a) ==
    [row EXCEPT
        !.severity = Severity(a.acuity),
        !.history = @ \o <<UserMessageInteraction(content, source),
                           AssessmentInteraction(a)>>,
        !.status = IF a.escalate THEN "ESCALATED" ELSE "OPEN"]

\* the rules step escalating the incident at acuity 1 only
RecordAssessment_AcuityOneOnly(row, content, source, a) ==
    [row EXCEPT
        !.severity = Severity(a.acuity),
        !.history = @ \o <<UserMessageInteraction(content, source),
                           AssessmentInteraction(a)>>,
        !.status = IF a.acuity = 1 THEN "ESCALATED" ELSE @]

\* the incident row after the rules step of a message request: the severity
\* follows the acuity, the history gains the user message and the assessment,
\* and the status becomes ESCALATED if the assessment escalates
RecordAssessment(row, content, source, a) ==
    [row EXCEPT
        !.severity = Severity(a.acuity),
        !.history = @ \o <<UserMessageInteraction(content, source),
                           AssessmentInteraction(a)>>,
        !.status = IF a.escalate THEN "ESCALATED" ELSE @]

\* how many calls of the adapters (stt_fn, extract_fn, generate_fn, tts_fn)
\* fail in one run
MaxFailures == 1

\* the adapter failures the audit trail shows so far
Failures ==
    Cardinality({i \in 1..Len(audit_events) :
                    \/ audit_events[i].step \in {"STT_FAILED", "EXTRACT_FAILED",
                                                 "GENERATE_FAILED"}
                    \/ /\ audit_events[i].step = "TTS"
                       /\ audit_events[i].model_used = "failed"})

\* whether the next adapter call succeeds: it may fail while the run has
\* failures left
AdapterOutcomes == IF Failures < MaxFailures THEN BOOLEAN ELSE {TRUE}

\* IncidentStatus
Statuses == {"OPEN", "TRIAGE_READY", "ESCALATED", "CLOSED"}

\* a table that lets an escalated incident go back to OPEN
valid_transitions_EscalatedToOpen ==
    [s \in Statuses |->
        CASE s = "OPEN"         -> {"TRIAGE_READY", "ESCALATED", "CLOSED"}
          [] s = "TRIAGE_READY" -> {"ESCALATED", "CLOSED"}
          [] s = "ESCALATED"    -> {"CLOSED", "OPEN"}
          [] s = "CLOSED"       -> {"OPEN"}]

\* valid_transitions of update_incident_status
valid_transitions ==
    [s \in Statuses |->
        CASE s = "OPEN"         -> {"TRIAGE_READY", "ESCALATED", "CLOSED"}
          [] s = "TRIAGE_READY" -> {"ESCALATED", "CLOSED"}
          [] s = "ESCALATED"    -> {"CLOSED"}
          [] s = "CLOSED"       -> {"OPEN"}]

\* a request that fails with an HTTP error
Rejected(request, code) == [request |-> request, code |-> code]

\* the local variables of a message request that passed its checks
NewTurn(kind, pc, input) ==
    [pc |-> pc, kind |-> kind, incident |-> incident,
     trace_id |-> requests + 1,
     content |-> input.content, extraction |-> input.extraction,
     assessment |-> NoResult, response_text |-> "", generate_called |-> FALSE]

---------------------------------------------------------------------------
(* send_message, in four steps.                                            *)

\* send_message without its check of the status
SendMessageBegin_NoClosedCheck ==
    /\ turn.pc = "idle"
    /\ requests < MaxRequests
    /\ requests' = requests + 1
    /\ \E known \in BOOLEAN, input \in TurnInputs :
          IF ~known
          THEN response' = Rejected("send_message", 404) /\ UNCHANGED turn
          ELSE turn' = NewTurn("chat", "extract", input) /\ UNCHANGED response
    /\ UNCHANGED <<incident, messages, assessments, audit_events>>
    /\ UNCHANGED <<engine_vars, appends>>

\* the checks: 404 for an unknown incident id, 400 for a closed incident
SendMessageBegin ==
    /\ turn.pc = "idle"
    /\ requests < MaxRequests
    /\ requests' = requests + 1
    /\ \E known \in BOOLEAN, input \in TurnInputs :
          IF ~known
          THEN response' = Rejected("send_message", 404) /\ UNCHANGED turn
          ELSE IF incident.status = "CLOSED"
          THEN response' = Rejected("send_message", 400) /\ UNCHANGED turn
          ELSE turn' = NewTurn("chat", "extract", input) /\ UNCHANGED response
    /\ UNCHANGED <<incident, messages, assessments, audit_events>>
    /\ UNCHANGED <<engine_vars, appends>>

\* the patient message is stored and the extraction made and logged
SendMessageExtract ==
    /\ turn.pc = "extract"
    /\ turn.kind = "chat"
    /\ messages' = Append(messages, Message("patient", turn.content))
    /\ audit_events' =
          audit_events
          \o <<AuditEvent("TOOL_CALL_EXTRACT",
                          [tool |-> "extract_structured",
                           schema_version |-> "1.0"]),
               ToolResultExtract(turn.extraction)>>
    /\ turn' = [turn EXCEPT !.pc = "rules"]
    /\ UNCHANGED <<incident, assessments, response, requests>>
    /\ UNCHANGED <<engine_vars, appends>>

\* the rules run; the assessment is logged and persisted, severity, history
\* and status are updated
SendMessageRules ==
    /\ turn.pc = "rules"
    /\ turn.kind = "chat"
    /\ LET assessment_result == AssessTable[turn.extraction] IN
          /\ audit_events' =
                audit_events
                \o <<AuditEvent("TOOL_CALL_RULES",
                                [tool |-> "evaluate_rules",
                                 rule_set_version |-> "1.0",
                                 thresholds_version |-> "1.0"]),
                     ChatToolResultRules(assessment_result)>>
          /\ assessments' = Append(assessments, AssessmentRow(assessment_result))
          /\ incident' = RecordAssessment(incident, turn.content, "chat",
                                          assessment_result)
          /\ turn' = [turn EXCEPT !.pc = "reply",
                                  !.assessment = <<assessment_result>>]
    /\ UNCHANGED <<messages, response, requests>>
    /\ UNCHANGED <<engine_vars, appends>>

\* the reply is composed, stored and returned
SendMessageReply ==
    /\ turn.pc = "reply"
    /\ turn.kind = "chat"
    /\ LET assessment_result == turn.assessment[1]
           assistant_text == generate_response(turn.extraction, assessment_result)
       IN  /\ messages' = Append(messages, Message("assistant", assistant_text))
           /\ incident' =
                 [incident EXCEPT !.history =
                     Append(@, AssistantMessageInteraction(assistant_text, "chat"))]
           /\ audit_events' = Append(audit_events, AgentDecision(assessment_result))
           /\ response' = [request |-> "send_message", code |-> 200,
                           assessment |-> <<assessment_result>>,
                           response_text |-> assistant_text]
    /\ turn' = NoTurn
    /\ UNCHANGED <<assessments, requests>>
    /\ UNCHANGED <<engine_vars, appends>>

---------------------------------------------------------------------------
(* send_voice and run_voice_pipeline, in six steps.                        *)

\* the checks of send_voice: 404, 400 for a closed incident, 413 for an
\* upload above MAX_AUDIO_BYTES
SendVoiceBegin ==
    /\ turn.pc = "idle"
    /\ requests < MaxRequests
    /\ requests' = requests + 1
    /\ \E known \in BOOLEAN, too_large \in BOOLEAN, input \in TurnInputs :
          IF ~known
          THEN response' = Rejected("send_voice", 404) /\ UNCHANGED turn
          ELSE IF incident.status = "CLOSED"
          THEN response' = Rejected("send_voice", 400) /\ UNCHANGED turn
          ELSE IF too_large
          THEN response' = Rejected("send_voice", 413) /\ UNCHANGED turn
          ELSE turn' = NewTurn("voice", "stt", input) /\ UNCHANGED response
    /\ UNCHANGED <<incident, messages, assessments, audit_events>>
    /\ UNCHANGED <<engine_vars, appends>>

\* the start of run_voice_pipeline.  On an incident whose mode is not
\* 'voice' it calls incident_repo.update_mode, which IncidentRepository does
\* not define: the AttributeError leaves the pipeline and the request fails
\* with 500.  Otherwise stt_fn transcribes; a failure of stt_fn ends the run
VoiceStt ==
    /\ turn.pc = "stt"
    /\ UNCHANGED incident
    /\ \E stt_ok \in AdapterOutcomes :
          IF incident.mode # "voice"
          THEN /\ response' = [request |-> "send_voice", code |-> 500,
                               error |-> "AttributeError: update_mode"]
               /\ turn' = NoTurn
               /\ UNCHANGED <<messages, audit_events>>
          ELSE IF stt_ok
          THEN /\ messages' = Append(messages, Message("patient", turn.content))
               /\ audit_events' =
                     Append(audit_events,
                            AuditEvent("STT",
                                       [transcript_length |-> Len(turn.content)]))
               /\ turn' = [turn EXCEPT !.pc = "extract"]
               /\ UNCHANGED response
          ELSE /\ audit_events' =
                     Append(audit_events,
                            AuditEvent("STT_FAILED", [error |-> "stt error"]))
               /\ response' = [request |-> "send_voice", code |-> 200,
                               assessment |-> NoResult, response_text |-> "",
                               trace_id |-> turn.trace_id,
                               error |-> "STT failed: stt error"]
               /\ turn' = NoTurn
               /\ UNCHANGED messages
    /\ UNCHANGED <<assessments, requests>>
    /\ UNCHANGED <<engine_vars, appends>>

\* extract_fn, or the deterministic extraction after it failed
VoiceExtract ==
    /\ turn.pc = "extract"
    /\ turn.kind = "voice"
    /\ \E extract_ok \in AdapterOutcomes :
          audit_events' =
              audit_events
              \o (IF extract_ok THEN <<>>
                  ELSE <<AuditEvent("EXTRACT_FAILED", [error |-> "extract error"])>>)
              \o <<ToolResultExtract(turn.extraction)>>
    /\ turn' = [turn EXCEPT !.pc = "rules"]
    /\ UNCHANGED <<incident, messages, assessments, response, requests>>
    /\ UNCHANGED <<engine_vars, appends>>

\* the rules run; the assessment is logged and persisted, severity, history
\* and status are updated
VoiceRules ==
    /\ turn.pc = "rules"
    /\ turn.kind = "voice"
    /\ LET a == AssessTable[turn.extraction] IN
          /\ audit_events' = Append(audit_events, VoiceToolResultRules(a))
          /\ assessments' = Append(assessments, AssessmentRow(a))
          /\ incident' = RecordAssessment(incident, turn.content, "voice", a)
          /\ turn' = [turn EXCEPT !.pc = "generate", !.assessment = <<a>>]
    /\ UNCHANGED <<messages, response, requests>>
    /\ UNCHANGED <<engine_vars, appends>>

\* the reply: a fixed text, or what generate_fn returns
VoiceGenerate ==
    /\ turn.pc = "generate"
    /\ \E gen \in {g \in GenerateOutcomes : g.ok \in AdapterOutcomes} :
          LET r == pipeline_response(turn.assessment[1], gen) IN
          /\ messages' = Append(messages, Message("assistant", r.response_text))
          /\ audit_events' =
                audit_events
                \o [i \in 1..Len(r.failed) |->
                       AuditEvent("GENERATE_FAILED", [error |-> r.failed[i]])]
                \o <<AuditEvent("GENERATE",
                                [disposition |-> turn.assessment[1].disposition])>>
          /\ turn' = [turn EXCEPT !.pc = "tts",
                                  !.response_text = r.response_text,
                                  !.generate_called = r.generate_called]
    /\ UNCHANGED <<incident, assessments, response, requests>>
    /\ UNCHANGED <<engine_vars, appends>>

\* the reply is synthesised (or not), put in the history and returned
VoiceTts ==
    /\ turn.pc = "tts"
    /\ \E tts_ok \in AdapterOutcomes :
          /\ audit_events' =
                Append(audit_events,
                       AuditEventBy("TTS",
                                    [audio_length |->
                                        IF tts_ok THEN Len(turn.response_text)
                                        ELSE 0],
                                    IF tts_ok THEN "tts" ELSE "failed"))
          /\ response' = [request |-> "send_voice", code |-> 200,
                          assessment |-> turn.assessment,
                          response_text |-> turn.response_text,
                          trace_id |-> turn.trace_id,
                          audio |-> tts_ok]
    /\ incident' =
          [incident EXCEPT !.history =
              Append(@, AssistantMessageInteraction(turn.response_text, "voice"))]
    /\ turn' = NoTurn
    /\ UNCHANGED <<messages, assessments, requests>>
    /\ UNCHANGED <<engine_vars, appends>>

---------------------------------------------------------------------------
(* The status endpoints; each may arrive while a message request runs.     *)

StatusChanged(request, row, new_status, interaction) ==
    /\ incident' = [row EXCEPT !.status = new_status,
                               !.history = Append(@, interaction)]
    /\ response' = [request |-> request, code |-> 200, status |-> new_status]

update_incident_status ==
    /\ requests < MaxRequests
    /\ requests' = requests + 1
    /\ \E known \in BOOLEAN, new_status \in Statuses :
          IF ~known
          THEN response' = Rejected("update_incident_status", 404)
               /\ UNCHANGED incident
          ELSE IF new_status \notin valid_transitions[incident.status]
          THEN response' = Rejected("update_incident_status", 400)
               /\ UNCHANGED incident
          ELSE StatusChanged("update_incident_status", incident, new_status,
                             [type |-> "status_changed_to_" \o Lower(new_status),
                              from_status |-> incident.status,
                              to_status |-> new_status])
    /\ UNCHANGED <<messages, assessments, audit_events, turn>>
    /\ UNCHANGED <<engine_vars, appends>>

close_incident ==
    /\ requests < MaxRequests
    /\ requests' = requests + 1
    /\ \E known \in BOOLEAN :
          IF ~known
          THEN response' = Rejected("close_incident", 404) /\ UNCHANGED incident
          ELSE IF incident.status = "CLOSED"
          THEN response' = Rejected("close_incident", 400) /\ UNCHANGED incident
          ELSE StatusChanged("close_incident", incident, "CLOSED",
                             [type |-> "incident_closed",
                              from_status |-> incident.status])
    /\ UNCHANGED <<messages, assessments, audit_events, turn>>
    /\ UNCHANGED <<engine_vars, appends>>

reopen_incident ==
    /\ requests < MaxRequests
    /\ requests' = requests + 1
    /\ \E known \in BOOLEAN :
          IF ~known
          THEN response' = Rejected("reopen_incident", 404) /\ UNCHANGED incident
          ELSE IF incident.status # "CLOSED"
          THEN response' = Rejected("reopen_incident", 400) /\ UNCHANGED incident
          ELSE StatusChanged("reopen_incident", incident, "OPEN",
                             [type |-> "incident_reopened"])
    /\ UNCHANGED <<messages, assessments, audit_events, turn>>
    /\ UNCHANGED <<engine_vars, appends>>

ServiceNext ==
    \/ SendMessageBegin
    \/ SendMessageExtract
    \/ SendMessageRules
    \/ SendMessageReply
    \/ SendVoiceBegin
    \/ VoiceStt
    \/ VoiceExtract
    \/ VoiceRules
    \/ VoiceGenerate
    \/ VoiceTts
    \/ update_incident_status
    \/ close_incident
    \/ reopen_incident

ServiceSpec == Init /\ [][ServiceNext]_vars

---------------------------------------------------------------------------
(* Properties of the service.                                              *)

\* the TOOL_RESULT_RULES events of the audit trail
RulesEvents ==
    {i \in 1..Len(audit_events) : audit_events[i].step = "TOOL_RESULT_RULES"}

\* C17: every triggered risk flag reported when a message is processed, as
\* emitted by evaluate_risk_signals and as recorded in the TOOL_RESULT_RULES
\* audit event, carries its flag_type, conviction and threshold, and its
\* conviction is greater than or equal to its threshold.
C17_ReportedFlags ==
    /\ \A i \in 1..Len(assessments) :
          \A j \in 1..Len(assessments[i].result_json.triggered_risk_flags) :
             LET f == assessments[i].result_json.triggered_risk_flags[j] IN
             /\ {"flag_type", "conviction", "threshold"} \subseteq DOMAIN f
             /\ f.conviction >= f.threshold
    /\ \A i \in RulesEvents :
          \A j \in 1..Len(audit_events[i].payload_json.triggered_risk_flags) :
             LET f == audit_events[i].payload_json.triggered_risk_flags[j] IN
             /\ {"flag_type", "conviction", "threshold"} \subseteq DOMAIN f
             /\ f.conviction >= f.threshold

\* the voice pipeline has composed its reply and not yet returned
ReplyComposed == turn.pc = "tts"

\* the reply starts with the escalation message
IsEscalationReply(text) ==
    /\ Len(text) >= Len(EscalationMessage)
    /\ SubSeq(text, 1, Len(EscalationMessage)) = EscalationMessage

\* C18: in run_voice_pipeline generate_fn is never invoked for a turn whose
\* assessment has escalate true, a triggered risk flag or any red flag; the
\* reply of such a turn is one of the fixed messages, and it is the
\* escalation message whenever escalate is true.
C18_DeterministicReply ==
    ReplyComposed =>
        LET a == turn.assessment[1] IN
        /\ (a.escalate \/ Len(a.triggered_risk_flags) > 0 \/ Len(a.red_flags) > 0)
              => /\ ~turn.generate_called
                 /\ \/ turn.response_text = EscalationMessage
                    \/ turn.response_text
                          = EscalationMessage \o " " \o a.escalation_reason
                    \/ turn.response_text = ConcernsMessage
        /\ a.escalate => IsEscalationReply(turn.response_text)

\* a voice turn with a red flag that does not escalate: the fixed text about
\* noted concerns, and no call of generate_fn
C18_Witness ==
    /\ ReplyComposed
    /\ ~turn.assessment[1].escalate
    /\ Len(turn.assessment[1].red_flags) > 0
    /\ turn.response_text = ConcernsMessage
    /\ ~turn.generate_called

\* send_message has returned a reply
ChatReplied == response.request = "send_message" /\ response.code = 200

\* the reply uses the minor-concern wording
IsMinorConcern(text) == Contains("minor concern", text)

\* C19: if the assessment has escalate true, any triggered risk flag or any
\* red flag, the reply of _generate_response is not the minor-concern
\* discharge message; that message is returned only when the disposition is
\* discharge with no red flags.
C19_NoMinorConcernForDanger ==
    ChatReplied =>
        LET a == response.assessment[1] IN
        /\ (a.escalate \/ Len(a.triggered_risk_flags) > 0 \/ Len(a.red_flags) > 0)
              => ~IsMinorConcern(response.response_text)
        /\ IsMinorConcern(response.response_text)
              => a.disposition = "discharge" /\ Len(a.red_flags) = 0

\* a chat turn with a red flag and no escalation, answered without the
\* minor-concern wording
C19_Witness ==
    /\ ChatReplied
    /\ ~response.assessment[1].escalate
    /\ Len(response.assessment[1].red_flags) > 0
    /\ response.response_text = ConcernsMessage

\* a message request returns in this step
TurnReturns == turn.pc \in {"reply", "tts"} /\ turn'.pc = "idle"

\* a close of the incident succeeded after the request read the incident
ClosedDuringTurn ==
    \E i \in (Len(turn.incident.history) + 1)..Len(incident.history) :
        incident.history[i].type \in {"incident_closed", "status_changed_to_closed"}

MessageRequestRefused ==
    /\ turn.pc = "idle"
    /\ turn'.pc = "idle"
    /\ requests' # requests
    /\ response'.request \in {"send_message", "send_voice"}

\* a message request that passes its checks: a turn starts
MessageRequestAccepted == turn.pc = "idle" /\ turn'.pc # "idle"

StatusRequest ==
    /\ requests' # requests
    /\ UNCHANGED turn
    /\ response'.request \in {"update_incident_status", "close_incident",
                              "reopen_incident"}

\* the transitions the status endpoints may make
C22_Transitions ==
    {<<"OPEN", "TRIAGE_READY">>, <<"OPEN", "ESCALATED">>, <<"OPEN", "CLOSED">>,
     <<"TRIAGE_READY", "ESCALATED">>, <<"TRIAGE_READY", "CLOSED">>,
     <<"ESCALATED", "CLOSED">>, <<"CLOSED", "OPEN">>}

RunEvents(trace_id) ==
    SelectSeq(audit_events, LAMBDA event : event.trace_id = trace_id)

\* run_voice_pipeline returned and none of its adapters raised
VoiceRunSucceeded ==
    /\ turn.pc = "idle"
    /\ response.request = "send_voice"
    /\ response.code = 200
    /\ "audio" \in DOMAIN response
    /\ response.audio
    /\ \A i \in 1..Len(RunEvents(response.trace_id)) :
          RunEvents(response.trace_id)[i].step
             \notin {"STT_FAILED", "EXTRACT_FAILED", "GENERATE_FAILED"}

\* the step names the audit trail of a voice run is to show, in order
C23_Steps == <<"STT", "EXTRACT", "TRIAGE_RULES", "GENERATE", "TTS">>

\* whether the events hold the steps, in that order
RECURSIVE HasStepsInOrder(_, _)
HasStepsInOrder(events, steps) ==
    IF steps = <<>> THEN TRUE
    ELSE IF events = <<>> THEN FALSE
    ELSE IF Head(events).step = Head(steps)
         THEN HasStepsInOrder(Tail(events), Tail(steps))
         ELSE HasStepsInOrder(Tail(events), steps)

\* C23: after a run of run_voice_pipeline in which every adapter succeeded,
\* the audit events that carry the run's trace_id include the steps STT,
\* EXTRACT, TRIAGE_RULES, GENERATE and TTS in that order, and each of the
\* run's events has a non-negative latency_ms
C23_VoiceAuditTrail ==
    VoiceRunSucceeded =>
        /\ HasStepsInOrder(RunEvents(response.trace_id), C23_Steps)
        /\ \A i \in 1..Len(RunEvents(response.trace_id)) :
              RunEvents(response.trace_id)[i].latency_ms >= 0

\* the audit events of one run among the given events
EventsOf(events, trace_id) ==
    SelectSeq(events, LAMBDA event : event.trace_id = trace_id)

\* the step names of the given events
StepsOf(events) == {events[i].step : i \in 1..Len(events)}

\* run_voice_pipeline returns after stt_fn raised
VoiceReturnsAfterStt ==
    turn.pc = "stt" /\ turn'.pc = "idle" /\ response'.code = 200

\* run_voice_pipeline returns after its last step
VoiceReturnsAfterTts == turn.pc = "tts" /\ turn'.pc = "idle"

\* C24: when stt_fn raises, run_voice_pipeline returns a result with error
\* set, having appended the audit event STT_FAILED and nothing else; when
\* extract_fn, generate_fn or tts_fn raises, the run's audit trail holds
\* EXTRACT_FAILED, GENERATE_FAILED or TTS_FAILED and the later steps are
\* still executed
C24_StepFailuresContained ==
    [][/\ VoiceReturnsAfterStt =>
             /\ "error" \in DOMAIN response'
             /\ Len(audit_events') = Len(audit_events) + 1
             /\ audit_events'[Len(audit_events')].step = "STT_FAILED"
             /\ UNCHANGED <<incident, messages, assessments>>
       /\ VoiceReturnsAfterTts =>
             LET run == EventsOf(audit_events', turn.trace_id) IN
             /\ "error" \notin DOMAIN response'
             /\ "EXTRACT_FAILED" \in StepsOf(run) =>
                   HasStepsInOrder(run, <<"EXTRACT_FAILED", "TOOL_RESULT_EXTRACT",
                                          "TOOL_RESULT_RULES", "GENERATE", "TTS">>)
             /\ "GENERATE_FAILED" \in StepsOf(run) =>
                   HasStepsInOrder(run, <<"GENERATE_FAILED", "GENERATE", "TTS">>)
             /\ ~response'.audio => "TTS_FAILED" \in StepsOf(run)
      ]_vars

---------------------------------------------------------------------------
(* Properties of the engine, continued.                                    *)

\* the summary the fields of an assessment call for
C25_Summary(a) ==
    "ESI-" \o ToString(a.acuity)
    \o (IF a.red_flags # <<>>
        THEN " | red flags: "
             \o Join(", ", [i \in 1..Len(a.red_flags) |-> a.red_flags[i].name])
        ELSE "")
    \o (IF a.escalate THEN " | ESCALATE" ELSE "")

\* C25: the summary of every assessment is "ESI-" and the final acuity,
\* then " | red flags: " and the comma-joined names of all red flags in
\* order exactly if there are red flags, then " | ESCALATE" exactly if
\* escalate is true
C25_SummaryConsistent ==
    \A i \in 1..Len(assessment) :
        /\ assessment[i].summary = C25_Summary(assessment[i])
        /\ Contains("red flags: ", assessment[i].summary)
              <=> assessment[i].red_flags # <<>>
        /\ Contains("ESCALATE", assessment[i].summary) <=> assessment[i].escalate

\* an assessment a risk signal clamped to acuity 2: its summary names the
\* acuity after the clamp, its red flags and the escalation
C25_Witness ==
    /\ assessment # NoResult
    /\ assessment[1].triggered_risk_flags # <<>>
    /\ assessment[1].acuity = 2
    /\ compute_acuity(extraction, assessment[1].red_flags) > 2
    /\ Contains("ESI-2 | red flags: ", assessment[1].summary)

\* C26: an assessment with any red flag (keyword, mental-status, vital-sign
\* or risk-signal flag) has a final acuity of at most 3 and is never
\* discharged; an assessment of acuity 4 or 5 has no red flag
C26_NoDangerDischarged ==
    \A i \in 1..Len(assessment) :
        /\ assessment[i].red_flags # <<>> =>
              /\ assessment[i].acuity <= 3
              /\ assessment[i].disposition # "discharge"
        /\ assessment[i].acuity \in {4, 5} => assessment[i].red_flags = <<>>

\* one red flag alone, with nothing else of note: acuity 3, not discharged
C26_Witness ==
    /\ assessment # NoResult
    /\ Len(assessment[1].red_flags) = 1
    /\ extraction.pain_scale = None
    /\ extraction.mental_status = "alert"
    /\ assessment[1].acuity = 3
    /\ assessment[1].disposition = "continue"

\* C27: the acuity of assess, which scores the keyword flags together with
\* the risk flags, equals compute_acuity on the keyword flags alone when no
\* risk signal triggers, and the smaller of that and 2 when one triggers;
\* risk signals alone give acuity 2, never 1
C27_RiskFlagsInScorer ==
    Assessed =>
        LET K == detect_red_flags(extraction)
            triggered == evaluate_risk_signals(extraction.risk_signals)
            alone == compute_acuity(extraction, K)
        IN  /\ triggered = <<>> => Result.acuity = alone
            /\ triggered # <<>> =>
                  Result.acuity = IF alone < 2 THEN alone ELSE 2
            /\ (/\ triggered # <<>>
                /\ K = <<>>
                /\ extraction.mental_status # "unresponsive") =>
                  Result.acuity = 2

\* two risk signals trigger and nothing else is of note: the two risk flags
\* count as two red flags in the scorer, and the acuity is 2
C27_Witness ==
    /\ Assessed
    /\ Len(Result.triggered_risk_flags) >= 2
    /\ detect_red_flags(extraction) = <<>>
    /\ compute_acuity(extraction, <<>>) = 5
    /\ Result.acuity = 2

---------------------------------------------------------------------------
(* Properties of the service, continued.                                   *)

\* C28: while the stored status is CLOSED only a successful request to a
\* status endpoint changes it, and it changes it to OPEN; no step of a
\* message request that passed its closed check earlier moves the incident
\* to ESCALATED or appends a message, an assessment or a history entry
C28_ClosedStaysClosed ==
    [][incident.status = "CLOSED" =>
          /\ incident'.status # "CLOSED" =>
                /\ StatusRequest
                /\ response'.code = 200
                /\ incident'.status = "OPEN"
          /\ ~StatusRequest =>
                /\ incident'.history = incident.history
                /\ UNCHANGED <<messages, assessments>>
      ]_vars

\* the rules step of a message request, chat or voice
RulesStep == turn.pc = "rules" /\ turn'.pc \in {"reply", "generate"}

\* C30: a message request changes the status only in its rules step, only
\* when the assessment escalates, and then to ESCALATED; a turn that does not
\* escalate leaves the status as it is, so an ESCALATED incident stays
\* ESCALATED until a request to a status endpoint changes it.  The severity
\* is set by every rules step to the severity of the turn's acuity and by
\* nothing else
C30_EscalationSticky ==
    [][~StatusRequest =>
          /\ incident'.status # incident.status =>
                /\ RulesStep
                /\ turn'.assessment[1].escalate
                /\ incident'.status = "ESCALATED"
          /\ RulesStep =>
                incident'.severity = Severity(turn'.assessment[1].acuity)
          /\ ~RulesStep => incident'.severity = incident.severity
      ]_vars

\* an incident escalated by its first turn is still ESCALATED after a second
\* turn that did not escalate, and its severity is that of the second turn
C30_Witness ==
    /\ Len(assessments) = 2
    /\ assessments[1].result_json.escalate
    /\ ~assessments[2].result_json.escalate
    /\ incident.status = "ESCALATED"
    /\ incident.severity = Severity(assessments[2].result_json.acuity)
    /\ incident.severity # Severity(assessments[1].result_json.acuity)
    /\ turn.pc = "idle"

---------------------------------------------------------------------------
(* IncidentRepository.append_interaction, called directly and by several   *)
(* callers at once.  A call selects the history, appends to the list it    *)
(* read and updates the row with the result; its transaction takes no row  *)
(* lock (no SELECT ... FOR UPDATE) and the engine sets no isolation level, *)
(* so another call may select or update between the two statements.        *)

\* how many calls of append_interaction are made
MaxAppends == 3

\* the types of the interactions the callers append
InteractionTypes == {"user_message", "assistant_message"}

\* a call begins: it selects the history of the row; for an unknown incident
\* id there is no row and the call returns
AppendInteractionSelect ==
    /\ Len(appends) < MaxAppends
    /\ \E known \in BOOLEAN, type \in InteractionTypes :
          appends' =
              Append(appends,
                     [pc |-> IF known THEN "selected" ELSE "done",
                      known |-> known,
                      interaction |-> [type |-> type, ts |-> Len(appends) + 1],
                      history |-> IF known THEN incident.history ELSE <<>>])
    /\ UNCHANGED <<incident, messages, assessments, audit_events, turn,
                   response, requests>>
    /\ UNCHANGED engine_vars

\* the call appends to the list it selected and updates the row
AppendInteractionWrite(i) ==
    /\ appends[i].pc = "selected"
    /\ incident' =
          [incident EXCEPT !.history =
              Append(appends[i].history, appends[i].interaction)]
    /\ appends' = [appends EXCEPT ![i].pc = "done"]
    /\ UNCHANGED <<messages, assessments, audit_events, turn, response, requests>>
    /\ UNCHANGED engine_vars

AppendInteractionUpdate == \E i \in 1..Len(appends) : AppendInteractionWrite(i)

HistoryNext ==
    \/ AppendInteractionSelect
    \/ AppendInteractionUpdate

HistorySpec == Init /\ [][HistoryNext]_vars

\* the interactions of the calls made on the existing incident, in call order
Appended ==
    LET made == SelectSeq(appends, LAMBDA call : call.known)
    IN  [i \in 1..Len(made) |-> made[i].interaction]

\* every call has returned
AllAppendsReturned == \A i \in 1..Len(appends) : appends[i].pc = "done"

\* C29: once the calls of append_interaction have returned, the history is
\* the initial system_created entry followed by every interaction appended
\* to the existing incident exactly once; a call on an unknown incident id
\* adds nothing
C29_HistoryAppendOnly ==
    AllAppendsReturned =>
        /\ incident.history[1].type = "system_created"
        /\ Len(incident.history) = 1 + Len(Appended)
        /\ \A i \in 1..Len(Appended) :
              Cardinality({j \in 2..Len(incident.history) :
                              incident.history[j] = Appended[i]}) = 1
===========================================================================
